---------------------------- MODULE Spec2Model ----------------------------
(***************************************************************************)
(* A model of the document question-answering pipeline:                   *)
(*   utils_rag.py   chunk_text (the chunker)                               *)
(*   rag_engine.py  RAGPipeline (prepare_doc, retrieve_similar_chunks,     *)
(*                  query_doc)                                             *)
(*   utils_rag.py   query_groq (the language-model call and its fallbacks) *)
(*   backend.py     /upload and /ask_rag, each run in a worker thread      *)
(*                                                                         *)
(* A Python str is a sequence of one-character strings, so that split and  *)
(* join are computed, not assumed.                                         *)
(***************************************************************************)
EXTENDS Integers, Sequences, FiniteSets, TLC

VARIABLES
    \* ---- RAGPipeline instance (rag_engine.py:13-18)
    text_chunks,      \* self.text_chunks: list of passages
    nn_model,         \* self.nn_model: None or a NearestNeighbors object
    embeddings,       \* self.embeddings: None or a matrix (sequence of rows)
    embedding_dim,    \* self.embedding_dim
    \* ---- one-call-at-a-time driver (specification Spec)
    ret,              \* what the last call on the pipeline was and how it ended
    before,           \* the pipeline fields as they were when that call began
    lastPrep,         \* the most recent prepare_doc call: its document and outcome
    good,             \* the document of the most recent successful prepare_doc
    \* ---- chunk_text applied to arbitrary input (specification SpecChunk)
    text,             \* the text argument
    max_length,       \* the max_length argument
    chunks,           \* the list chunk_text returned, or None before the call
    \* ---- worker threads of the HTTP layer (specification SpecConc)
    pc,               \* pc[t]: where request t's worker thread stands
    loc,              \* loc[t]: the locals of request t's worker thread
    \* ---- the HTTP layer, one request at a time (specification SpecHttp)
    rag,              \* backend.py's global rag: None or the RAGPipeline object
    response,         \* the last request and the response it was given
    \* ---- query_groq against arbitrary provider replies (specification SpecGroq)
    groq_env,         \* the environment and the provider's reply to each model
    groq_ret          \* how query_groq ended, or None before the call

vars == <<text_chunks, nn_model, embeddings, embedding_dim, ret, before,
          lastPrep, good, text, max_length, chunks, pc, loc,
          rag, response, groq_env, groq_ret>>

pipeVars  == <<text_chunks, nn_model, embeddings, embedding_dim>>
seqVars   == <<ret, before, lastPrep, good>>
chunkVars == <<text, max_length, chunks>>
concVars  == <<pc, loc>>
httpVars  == <<rag, response>>
groqVars  == <<groq_env, groq_ret>>

\* Python's None.  A value that may be None is a record, so that it compares
\* with None: a matrix is Matrix(rows), a returned list is List(items).
None == [none |-> TRUE]
Matrix(rows) == [rows |-> rows]
List(items)  == [items |-> items]

-----------------------------------------------------------------------------
(* Bounds of the model.                                                    *)

\* longest text handed to chunk_text in SpecChunk, in characters
MaxTextLen == 7
\* largest max_length handed to chunk_text in SpecChunk
MaxM == 3
\* words per passage used by prepare_doc.  The source's default is 500
\* (utils_rag.py:25); every claim about the pipeline is independent of the
\* value, and documents of several passages must fit the bounded texts, so
\* the model runs the same chunker with this small stand-in.
DefaultMaxLength == 2
\* largest top_k a caller passes to retrieve_similar_chunks
MaxTopK == 4
\* number of HTTP requests (worker threads) in SpecConc
NReqs == 3

-----------------------------------------------------------------------------
(* Python strings.                                                         *)

Whitespace == {" ", "\n"}
Letters    == {"a", "b"}
Alphabet   == Letters \cup Whitespace

\* all strings over S of length at most n
RECURSIVE StrUpTo(_, _)
StrUpTo(S, n) ==
    IF n = 0 THEN {<<>>}
    ELSE LET shorter == StrUpTo(S, n - 1)
         IN  shorter \cup {Append(s, c) : s \in {x \in shorter : Len(x) = n - 1}, c \in S}

\* str.strip() == "" : the string is empty or whitespace only
IsBlank(s) == \A i \in 1..Len(s) : s[i] \in Whitespace

\* str.split(): the maximal runs of non-whitespace characters, in order
RECURSIVE SplitFrom(_, _, _, _)
SplitFrom(s, i, word, words) ==
    IF i > Len(s)
    THEN IF word = <<>> THEN words ELSE Append(words, word)
    ELSE IF s[i] \in Whitespace
         THEN SplitFrom(s, i + 1, <<>>, IF word = <<>> THEN words ELSE Append(words, word))
         ELSE SplitFrom(s, i + 1, Append(word, s[i]), words)

Split(s) == SplitFrom(s, 1, <<>>, <<>>)

\* " ".join(words)
RECURSIVE Join(_)
Join(words) ==
    IF words = <<>> THEN <<>>
    ELSE IF Len(words) = 1 THEN words[1]
    ELSE words[1] \o <<" ">> \o Join(Tail(words))

-----------------------------------------------------------------------------
(* chunk_text (utils_rag.py:25-42).                                        *)

\* chunk_loop without "if current_chunk" flush of lines 39-40
RECURSIVE chunk_loop_no_flush(_, _, _, _, _)
chunk_loop_no_flush(words, i, current_chunk, acc, max_len) ==
    IF i > Len(words)
    THEN acc
    ELSE LET appended == Append(current_chunk, words[i])
         IN  IF Len(appended) >= max_len
             THEN chunk_loop_no_flush(words, i + 1, <<>>, Append(acc, Join(appended)), max_len)
             ELSE chunk_loop_no_flush(words, i + 1, appended, acc, max_len)

\* chunk_loop emitting the buffer only when it EXCEEDS max_length
RECURSIVE chunk_loop_off_by_one(_, _, _, _, _)
chunk_loop_off_by_one(words, i, current_chunk, acc, max_len) ==
    IF i > Len(words)
    THEN IF current_chunk # <<>> THEN Append(acc, Join(current_chunk)) ELSE acc
    ELSE LET appended == Append(current_chunk, words[i])
         IN  IF Len(appended) > max_len
             THEN chunk_loop_off_by_one(words, i + 1, <<>>, Append(acc, Join(appended)), max_len)
             ELSE chunk_loop_off_by_one(words, i + 1, appended, acc, max_len)

\* the for loop of lines 33-37 from word i on, then the flush of lines 39-40
RECURSIVE chunk_loop(_, _, _, _, _)
chunk_loop(words, i, current_chunk, acc, max_len) ==
    IF i > Len(words)
    THEN IF current_chunk # <<>> THEN Append(acc, Join(current_chunk)) ELSE acc
    ELSE LET appended == Append(current_chunk, words[i])
         IN  IF Len(appended) >= max_len
             THEN chunk_loop(words, i + 1, <<>>, Append(acc, Join(appended)), max_len)
             ELSE chunk_loop(words, i + 1, appended, acc, max_len)

\* MUTANT of chunk_text: the final partial passage is lost
chunk_text_no_flush(txt, max_len) == chunk_loop_no_flush(Split(txt), 1, <<>>, <<>>, max_len)

\* MUTANT of chunk_text: passages of max_length + 1 words
chunk_text_off_by_one(txt, max_len) == chunk_loop_off_by_one(Split(txt), 1, <<>>, <<>>, max_len)

chunk_text(txt, max_len) == chunk_loop(Split(txt), 1, <<>>, <<>>, max_len)

-----------------------------------------------------------------------------
(* Files, the extractor and the embedder.                                  *)

\* w copies of the one-letter word c, separated by single spaces
RECURSIVE RepWords(_, _)
RepWords(c, w) == IF w <= 1 THEN <<c>> ELSE RepWords(c, w - 1) \o <<" ", c>>

\* An uploaded file is what the extractor makes of it: unreadable, or the
\* text of its pages.
BadFile    == [readable |-> FALSE, text |-> <<>>]
PdfOf(txt) == [readable |-> TRUE, text |-> txt]

\* documents of one, two and three passages, each over its own letter,
\* with leading, trailing and doubled whitespace
DocX == PdfOf(RepWords("x", 1))
DocY == PdfOf(<<"\n">> \o RepWords("y", DefaultMaxLength + 1))
DocZ == PdfOf(RepWords("z", 2 * DefaultMaxLength + 1) \o <<" ", "\n">>)

GoodFiles  == {DocX, DocY, DocZ}
BlankFiles == {PdfOf(<<>>), PdfOf(<<" ", "\n", " ">>)}
Files      == GoodFiles \cup BlankFiles \cup {BadFile}

NoExc == [type |-> "", msg |-> ""]
Exc(type, msg) == [type |-> type, msg |-> msg]

\* fitz.open raises on a file it cannot open or parse; otherwise the pages'
\* text is concatenated
extract_text_from_pdf(file) ==
    IF file.readable
    THEN [exc |-> NoExc, value |-> file.text]
    ELSE [exc |-> Exc("FileDataError", "cannot open"), value |-> None]

\* What embedding_model.encode can do with a non-empty batch: return one row
\* per string ("ok"), raise ("raise"), or hand back nothing usable, which
\* prepare_doc checks for at line 38 ("none", "empty").
EncodeOutcomes == {"ok", "raise", "none", "empty"}

\* The encoder is deterministic: the row of a string is a value fixed by the
\* string.  unit says whether the row has been divided by its norm.
Embed(s)     == [of |-> s, unit |-> FALSE]
Normalize(v) == [v EXCEPT !.unit = TRUE]

encode(batch, outcome) ==
    CASE outcome = "ok"    -> [exc |-> NoExc, value |-> Matrix([i \in 1..Len(batch) |-> Embed(batch[i])])]
      [] outcome = "none"  -> [exc |-> NoExc, value |-> None]
      [] outcome = "empty" -> [exc |-> NoExc, value |-> Matrix(<<>>)]
      [] OTHER             -> [exc |-> Exc("EmbeddingError", "encode failed"), value |-> None]

\* shape[1] of a non-empty matrix of all-MiniLM-L6-v2 rows
Dim == [dim |-> "D"]

-----------------------------------------------------------------------------
(* RAGPipeline (rag_engine.py:12-77).  A method is an operator from the    *)
(* object's fields (self) and the call's inputs to the fields after the    *)
(* call, the exception raised (NoExc if none) and the value returned.      *)

\* __init__ (lines 13-18)
NewPipeline ==
    [text_chunks |-> <<>>, nn_model |-> None, embeddings |-> None, embedding_dim |-> None]

Self ==
    [text_chunks |-> text_chunks, nn_model |-> nn_model,
     embeddings |-> embeddings, embedding_dim |-> embedding_dim]

\* NearestNeighbors(metric="cosine"), then .fit(X)
NewNearestNeighbors == [fitted |-> FALSE, X |-> <<>>]
Fit(nn, m)          == [nn EXCEPT !.fitted = TRUE, !.X = m.rows]

\* lines 36-51, entered with self.text_chunks assigned.  The embedder is the
\* one collaborator that fails here (enc); the numpy arithmetic of lines
\* 43-47 and the fit of a non-empty matrix at line 51 do not raise.
prepare_tail(s1, enc) ==
    LET e == encode(s1.text_chunks, enc)
    IN  IF e.exc # NoExc
        THEN [self |-> s1, exc |-> e.exc]
        ELSE LET s2 == [s1 EXCEPT !.embeddings = e.value]
             IN  IF s2.embeddings = None \/ Len(s2.embeddings.rows) = 0
                 THEN [self |-> s2, exc |-> Exc("RuntimeError", "Failed to compute embeddings.")]
                 ELSE LET normed == Matrix([i \in 1..Len(s2.embeddings.rows) |->
                                              Normalize(s2.embeddings.rows[i])])
                          s3 == [s2 EXCEPT !.embeddings = normed, !.embedding_dim = Dim]
                          s4 == [s3 EXCEPT !.nn_model = NewNearestNeighbors]
                          s5 == [s4 EXCEPT !.nn_model = Fit(s4.nn_model, s4.embeddings)]
                      IN  [self |-> s5, exc |-> NoExc]

\* MUTANT of prepare_doc: a document without text clears the pipeline
prepare_doc_clear_on_blank(self, file, enc) ==
    LET x == extract_text_from_pdf(file)
    IN  IF x.exc # NoExc
        THEN [self |-> self, exc |-> x.exc]
        ELSE IF x.value = <<>> \/ IsBlank(x.value)
        THEN [self |-> NewPipeline, exc |-> Exc("ValueError", "No text extracted from PDF.")]
        ELSE LET s1 == [self EXCEPT !.text_chunks = chunk_text(x.value, DefaultMaxLength)]
             IN  IF s1.text_chunks = <<>>
                 THEN [self |-> s1, exc |-> Exc("ValueError", "No text chunks produced from PDF.")]
                 ELSE prepare_tail(s1, enc)

\* MUTANT of prepare_doc: the new passages are appended to the stored ones
prepare_doc_append(self, file, enc) ==
    LET x == extract_text_from_pdf(file)
    IN  IF x.exc # NoExc
        THEN [self |-> self, exc |-> x.exc]
        ELSE IF x.value = <<>> \/ IsBlank(x.value)
        THEN [self |-> self, exc |-> Exc("ValueError", "No text extracted from PDF.")]
        ELSE LET s1 == [self EXCEPT !.text_chunks =
                            self.text_chunks \o chunk_text(x.value, DefaultMaxLength)]
             IN  IF s1.text_chunks = <<>>
                 THEN [self |-> s1, exc |-> Exc("ValueError", "No text chunks produced from PDF.")]
                 ELSE prepare_tail(s1, enc)

\* MUTANT of prepare_doc: the empty-document check does not strip
prepare_doc_no_strip(self, file, enc) ==
    LET x == extract_text_from_pdf(file)
    IN  IF x.exc # NoExc
        THEN [self |-> self, exc |-> x.exc]
        ELSE IF x.value = <<>>
        THEN [self |-> self, exc |-> Exc("ValueError", "No text extracted from PDF.")]
        ELSE LET s1 == [self EXCEPT !.text_chunks = chunk_text(x.value, DefaultMaxLength)]
             IN  IF s1.text_chunks = <<>>
                 THEN [self |-> s1, exc |-> Exc("ValueError", "No text chunks produced from PDF.")]
                 ELSE prepare_tail(s1, enc)

\* prepare_doc (lines 20-51)
prepare_doc(self, file, enc) ==
    LET x == extract_text_from_pdf(file)
    IN  IF x.exc # NoExc
        THEN [self |-> self, exc |-> x.exc]
        ELSE IF x.value = <<>> \/ IsBlank(x.value)
        THEN [self |-> self, exc |-> Exc("ValueError", "No text extracted from PDF.")]
        ELSE LET s1 == [self EXCEPT !.text_chunks = chunk_text(x.value, DefaultMaxLength)]
             IN  IF s1.text_chunks = <<>>
                 THEN [self |-> s1, exc |-> Exc("ValueError", "No text chunks produced from PDF.")]
                 ELSE prepare_tail(s1, enc)

\* the orders in which kneighbors can rank n fitted rows for a query:
\* ascending cosine distance, which the query decides
Rankings(n) == {r \in [1..n -> 1..n] : \A i, j \in 1..n : i # j => r[i] # r[j]}

\* nn_model.kneighbors(query_embedding, n_neighbors=k) of scikit-learn, on
\* whatever self.nn_model holds.  rank is the ranking of the fitted rows.
kneighbors(nn, rank, k) ==
    IF nn = None
    THEN [exc |-> Exc("AttributeError", "NoneType has no kneighbors"), value |-> <<>>]
    ELSE IF ~nn.fitted
    THEN [exc |-> Exc("NotFittedError", "not fitted yet"), value |-> <<>>]
    ELSE IF k <= 0
    THEN [exc |-> Exc("ValueError", "Expected n_neighbors > 0"), value |-> <<>>]
    ELSE IF k > Len(nn.X)
    THEN [exc |-> Exc("ValueError", "Expected n_neighbors <= n_samples_fit"), value |-> <<>>]
    ELSE [exc |-> NoExc, value |-> [i \in 1..k |-> rank[i]]]

Min(a, b) == IF a <= b THEN a ELSE b

NotPrepared == Exc("RuntimeError", "RAG pipeline not prepared.")

\* MUTANT of IsPrepared: only the passage list is looked at
IsPrepared_chunks_only(self) == self.text_chunks # <<>>

\* the guard of line 57
IsPrepared(self) ==
    ~(self.nn_model = None \/ self.embeddings = None \/ self.text_chunks = <<>>)

\* MUTANT of retrieve_similar_chunks: a non-positive top_k is raised to 1
retrieve_similar_chunks_coerce(self, rank, top_k) ==
    IF ~IsPrepared(self)
    THEN [exc |-> NotPrepared, value |-> <<>>, indices |-> <<>>]
    ELSE LET k == IF top_k <= 0 THEN 1 ELSE Min(top_k, Len(self.text_chunks))
             nb == kneighbors(self.nn_model, rank, k)
         IN  IF nb.exc # NoExc
             THEN [exc |-> nb.exc, value |-> <<>>, indices |-> <<>>]
             ELSE IF \E j \in 1..Len(nb.value) : nb.value[j] > Len(self.text_chunks)
             THEN [exc |-> Exc("IndexError", "list index out of range"),
                   value |-> <<>>, indices |-> nb.value]
             ELSE [exc |-> NoExc,
                   value |-> [j \in 1..Len(nb.value) |-> self.text_chunks[nb.value[j]]],
                   indices |-> nb.value]

\* retrieve_similar_chunks (lines 53-68); indices are 1-based here
retrieve_similar_chunks(self, rank, top_k) ==
    IF ~IsPrepared(self)
    THEN [exc |-> NotPrepared, value |-> <<>>, indices |-> <<>>]
    ELSE LET k == Min(top_k, Len(self.text_chunks))
             nb == kneighbors(self.nn_model, rank, k)
         IN  IF nb.exc # NoExc
             THEN [exc |-> nb.exc, value |-> <<>>, indices |-> <<>>]
             ELSE IF \E j \in 1..Len(nb.value) : nb.value[j] > Len(self.text_chunks)
             THEN [exc |-> Exc("IndexError", "list index out of range"),
                   value |-> <<>>, indices |-> nb.value]
             ELSE [exc |-> NoExc,
                   value |-> [j \in 1..Len(nb.value) |-> self.text_chunks[nb.value[j]]],
                   indices |-> nb.value]

\* sep.join(strs)
RECURSIVE JoinWith(_, _)
JoinWith(sep, strs) ==
    IF strs = <<>> THEN <<>>
    ELSE IF Len(strs) = 1 THEN strs[1]
    ELSE strs[1] \o sep \o JoinWith(sep, Tail(strs))

\* top_k of the retrieve call in query_doc (line 74), also the default
DefaultTopK == 3

Question == <<"q", "?">>

\* the f-string of line 76: fixed text, the context, fixed text, the question
Prompt(context, question) ==
    [head |-> "Answer the following question using the context.",
     context |-> context, question |-> question]

\* query_doc (lines 70-77)
query_doc(self, rank, question) ==
    LET r == retrieve_similar_chunks(self, rank, DefaultTopK)
    IN  IF r.exc # NoExc
        THEN [exc |-> r.exc, value |-> None]
        ELSE [exc |-> NoExc,
              value |-> Prompt(JoinWith(<<"\n", "\n">>, r.value), question)]

-----------------------------------------------------------------------------
(* query_groq (utils_rag.py:52-122).  The provider is outside the program: *)
(* what it answers to the call for one model is an input.                  *)

\* The environment: whether GROQ_API_KEY is set, and GROQ_RAG_MODEL ("" when
\* it is unset).
Unset == ""
Envs  == [GROQ_API_KEY : BOOLEAN,
          GROQ_RAG_MODEL : {Unset, "llama-3.3-70b-versatile", "mixtral-8x7b"}]

DEFAULT_GROQ_RAG_MODEL(env) ==
    IF env.GROQ_RAG_MODEL = Unset THEN "gpt-4o-mini" ELSE env.GROQ_RAG_MODEL

FALLBACK_GROQ_MODELS(env) == <<DEFAULT_GROQ_RAG_MODEL(env), "llama-3.3-70b-versatile">>

Models == {"gpt-4o-mini", "llama-3.3-70b-versatile", "mixtral-8x7b"}

\* What _call_groq_chat returns: (status, resp).  status is "None" when the
\* request itself failed, and resp is then {"error": "Request failed: ..."}.
\* Otherwise resp is the parsed JSON body or, if the body is not JSON, its
\* text.  Of a body the model keeps what query_groq looks at:
\*   content      what resp["choices"][0]["message"]["content"] yields:
\*                "text" (a non-empty string), "empty" ("" or null),
\*                "absent" (no choices key: the defaults give None), or
\*                "unparsable" (the lookup raises: choices is [], message is
\*                null, ...)
\*   error        "absent", "dict" (an object with a message) or "str"
\*   unavailable  whether the message line 107-110 extracts contains one of
\*                the four substrings of line 112
Body(kind, content, error, unavailable) ==
    [kind |-> kind, content |-> content, error |-> error, unavailable |-> unavailable]

Reply(status, body) == [status |-> status, body |-> body]

RequestFailed ==
    {Reply("None", Body("dict", "absent", "str", u)) : u \in BOOLEAN}

Replies200 ==
    {Reply("200", Body("dict", c, e, u)) :
        c \in {"text", "empty", "absent", "unparsable"},
        e \in {"absent", "dict", "str"}, u \in BOOLEAN}
    \cup {Reply("200", Body("text", "unparsable", "absent", u)) : u \in BOOLEAN}

RepliesNot200 ==
    {Reply(s, Body("dict", "absent", e, u)) :
        s \in {"400", "404", "401", "500"},
        e \in {"absent", "dict", "str"}, u \in BOOLEAN}
    \cup {Reply(s, Body("text", "unparsable", "absent", u)) :
            s \in {"400", "404", "401", "500"}, u \in BOOLEAN}

Replies == RequestFailed \cup Replies200 \cup RepliesNot200

_call_groq_chat(provider, model) == provider[model]

\* line 91: the candidates without repetitions, in order
RECURSIVE Unique(_, _)
Unique(seq, seen) ==
    IF seq = <<>> THEN <<>>
    ELSE IF Head(seq) \in seen THEN Unique(Tail(seq), seen)
    ELSE <<Head(seq)>> \o Unique(Tail(seq), seen \cup {Head(seq)})

Content(model)   == [of |-> model, what |-> "content.strip()"]
JsonDumps(model) == [of |-> model, what |-> "json.dumps(resp)"]

\* lines 93-122: the loop from candidate i on.  calls is the sequence of
\* models _call_groq_chat has been called with.
RECURSIVE groq_loop(_, _, _, _)
groq_loop(candidates, i, calls, provider) ==
    IF i > Len(candidates)
    THEN [exc |-> Exc("Exception", "Groq API failed for all tried models"),
          value |-> None, calls |-> calls]
    ELSE LET model   == candidates[i]
             called  == Append(calls, model)
             r       == _call_groq_chat(provider, model)
             status  == r.status
             resp    == r.body
             Return(v) == [exc |-> NoExc, value |-> v, calls |-> called]
             Raised(e) == [exc |-> e, value |-> None, calls |-> called]
             \* lines 105-120
             after200 ==
                 IF status \in {"400", "404"} \/ (resp.kind = "dict" /\ resp.error # "absent")
                 THEN IF resp.unavailable
                      THEN groq_loop(candidates, i + 1, called, provider)
                      ELSE Raised(Exc("Exception", "Groq API error for model"))
                 ELSE Raised(Exc("Exception", "Groq API unexpected response for model"))
         IN  IF status = "200"
             THEN IF resp.kind = "text" \/ resp.content = "unparsable"
                  THEN Return(JsonDumps(model))
                  ELSE IF resp.content = "text"
                  THEN Return(Content(model))
                  ELSE after200
             ELSE after200

\* MUTANT of query_groq: the candidates keep their repetitions
query_groq_no_dedupe(env, provider) ==
    IF ~env.GROQ_API_KEY
    THEN [exc |-> Exc("ValueError", "GROQ_API_KEY is missing."), value |-> None, calls |-> <<>>]
    ELSE groq_loop(FALLBACK_GROQ_MODELS(env), 1, <<>>, provider)

query_groq(env, provider) ==
    IF ~env.GROQ_API_KEY
    THEN [exc |-> Exc("ValueError", "GROQ_API_KEY is missing."), value |-> None, calls |-> <<>>]
    ELSE groq_loop(Unique(FALLBACK_GROQ_MODELS(env), {}), 1, <<>>, provider)

\* the models query_groq can ask for in an environment
CandidateSet(env) ==
    {FALLBACK_GROQ_MODELS(env)[i] : i \in DOMAIN FALLBACK_GROQ_MODELS(env)}

-----------------------------------------------------------------------------
(* Values the variables of the other specifications rest at.               *)

NoCall == [op |-> "none"]
NoPrep == [doc |-> None, exc |-> [type |-> "NoCall", msg |-> ""], prior |-> None]

PipeInit ==
    /\ text_chunks = <<>>
    /\ nn_model = None
    /\ embeddings = None
    /\ embedding_dim = None

SeqIdle ==
    /\ ret = NoCall
    /\ before = NewPipeline
    /\ lastPrep = NoPrep
    /\ good = None

ChunkIdle ==
    /\ text = <<>>
    /\ max_length = 1
    /\ chunks = None

ConcIdle ==
    /\ pc = <<>>
    /\ loc = <<>>

\* the pipeline object exists and no request has been answered
RAGObject == [object |-> "RAGPipeline"]

HttpIdle ==
    /\ rag = RAGObject
    /\ response = NoCall

GroqIdle ==
    /\ groq_env = None
    /\ groq_ret = None

-----------------------------------------------------------------------------
(* Spec: the calls on one pipeline, one at a time.                         *)

Init == PipeInit /\ SeqIdle /\ ChunkIdle /\ ConcIdle /\ HttpIdle /\ GroqIdle

SetSelf(s) ==
    /\ text_chunks' = s.text_chunks
    /\ nn_model' = s.nn_model
    /\ embeddings' = s.embeddings
    /\ embedding_dim' = s.embedding_dim

\* the rankings a query can produce on the index self.nn_model holds
RankingsOf(nn) == IF nn = None THEN {<<>>} ELSE Rankings(Len(nn.X))

TopKs == (-1)..MaxTopK

PrepareDoc ==
    \E file \in Files, enc \in EncodeOutcomes :
        LET r == prepare_doc(Self, file, enc)
        IN  /\ SetSelf(r.self)
            /\ before' = Self
            /\ ret' = [op |-> "prepare_doc", file |-> file, exc |-> r.exc]
            /\ lastPrep' = [doc |-> file, exc |-> r.exc, prior |-> good]
            /\ good' = IF r.exc = NoExc THEN file ELSE good
            /\ UNCHANGED <<chunkVars, concVars, httpVars, groqVars>>

RetrieveSimilarChunks ==
    \E rank \in RankingsOf(nn_model), top_k \in TopKs :
        LET r == retrieve_similar_chunks(Self, rank, top_k)
        IN  /\ before' = Self
            /\ ret' = [op |-> "retrieve_similar_chunks", top_k |-> top_k,
                       exc |-> r.exc, value |-> r.value, indices |-> r.indices]
            /\ UNCHANGED <<pipeVars, lastPrep, good, chunkVars, concVars, httpVars, groqVars>>

QueryDoc ==
    \E rank \in RankingsOf(nn_model) :
        LET r == query_doc(Self, rank, Question)
        IN  /\ before' = Self
            /\ ret' = [op |-> "query_doc", exc |-> r.exc, value |-> r.value]
            /\ UNCHANGED <<pipeVars, lastPrep, good, chunkVars, concVars, httpVars, groqVars>>

Next == PrepareDoc \/ RetrieveSimilarChunks \/ QueryDoc

Spec == Init /\ [][Next]_vars

-----------------------------------------------------------------------------
(* SpecConc: /upload and /ask_rag requests on one pipeline.  backend.py     *)
(* hands rag.prepare_doc and rag.query_doc to asyncio.to_thread, so each   *)
(* request runs them in a worker thread of its own and neither handler nor *)
(* RAGPipeline takes a lock.  A step is one read or one write of a field   *)
(* of the shared object (lines that touch only locals ride along with the  *)
(* next such step).  Every upload is a readable document with text and the *)
(* embedder always answers, so that whatever goes wrong here is due to the *)
(* interleaving alone.                                                     *)

Reqs == 1..NReqs

NoLocals ==
    [kind |-> "", file |-> None, batch |-> <<>>, k |-> 0, indices |-> <<>>,
     chunks |-> <<>>, exc |-> NoExc, value |-> None]

ConcInit ==
    /\ PipeInit /\ SeqIdle /\ ChunkIdle /\ HttpIdle /\ GroqIdle
    /\ pc = [t \in Reqs |-> "idle"]
    /\ loc = [t \in Reqs |-> NoLocals]

Goto(t, label) == pc' = [pc EXCEPT ![t] = label]

\* the thread's call ends by raising
Raise(t, e) ==
    /\ loc' = [loc EXCEPT ![t].exc = e]
    /\ Goto(t, "done")

\* upload_file (backend.py:124-147): the file is saved, rag exists, and
\* rag.prepare_doc(file_path) starts in a worker thread
upload_file(t) ==
    /\ pc[t] = "idle"
    /\ \E file \in GoodFiles : loc' = [loc EXCEPT ![t].kind = "upload", ![t].file = file]
    /\ Goto(t, "prepare_26")
    /\ UNCHANGED <<pipeVars, seqVars, chunkVars, httpVars, groqVars>>

\* ask_from_doc (backend.py:153-165): rag.query_doc(question) starts in a
\* worker thread, and with it retrieve_similar_chunks(question, top_k=3)
ask_from_doc(t) ==
    /\ pc[t] = "idle"
    /\ loc' = [loc EXCEPT ![t].kind = "ask"]
    /\ Goto(t, "retrieve_57")
    /\ UNCHANGED <<pipeVars, seqVars, chunkVars, httpVars, groqVars>>

\* prepare_doc lines 26-30: extract, refuse a blank text, store the passages
prepare_26_30(t) ==
    /\ pc[t] = "prepare_26"
    /\ LET x == extract_text_from_pdf(loc[t].file)
       IN  IF x.exc # NoExc
           THEN Raise(t, x.exc) /\ UNCHANGED text_chunks
           ELSE IF x.value = <<>> \/ IsBlank(x.value)
           THEN Raise(t, Exc("ValueError", "No text extracted from PDF.")) /\ UNCHANGED text_chunks
           ELSE /\ text_chunks' = chunk_text(x.value, DefaultMaxLength)
                /\ Goto(t, "prepare_31")
                /\ UNCHANGED loc
    /\ UNCHANGED <<nn_model, embeddings, embedding_dim, seqVars, chunkVars, httpVars, groqVars>>

\* lines 31-37: self.text_chunks is read again, checked, and handed to encode
prepare_31_37(t) ==
    /\ pc[t] = "prepare_31"
    /\ IF text_chunks = <<>>
       THEN Raise(t, Exc("ValueError", "No text chunks produced from PDF."))
       ELSE /\ loc' = [loc EXCEPT ![t].batch = text_chunks]
            /\ Goto(t, "prepare_37")
    /\ UNCHANGED <<pipeVars, seqVars, chunkVars, httpVars, groqVars>>

\* line 37: encode returns and self.embeddings is assigned
prepare_37(t) ==
    /\ pc[t] = "prepare_37"
    /\ embeddings' = encode(loc[t].batch, "ok").value
    /\ Goto(t, "prepare_38")
    /\ UNCHANGED <<text_chunks, nn_model, embedding_dim, loc, seqVars, chunkVars, httpVars, groqVars>>

\* lines 38-47: self.embeddings is read again, checked, normalised and
\* assigned; self.embedding_dim is assigned
prepare_38_47(t) ==
    /\ pc[t] = "prepare_38"
    /\ IF embeddings = None \/ Len(embeddings.rows) = 0
       THEN Raise(t, Exc("RuntimeError", "Failed to compute embeddings."))
            /\ UNCHANGED <<embeddings, embedding_dim>>
       ELSE /\ embeddings' = Matrix([i \in 1..Len(embeddings.rows) |->
                                         Normalize(embeddings.rows[i])])
            /\ embedding_dim' = Dim
            /\ Goto(t, "prepare_50")
            /\ UNCHANGED loc
    /\ UNCHANGED <<text_chunks, nn_model, seqVars, chunkVars, httpVars, groqVars>>

\* line 50: self.nn_model is a new, unfitted NearestNeighbors
prepare_50(t) ==
    /\ pc[t] = "prepare_50"
    /\ nn_model' = NewNearestNeighbors
    /\ Goto(t, "prepare_51")
    /\ UNCHANGED <<text_chunks, embeddings, embedding_dim, loc, seqVars, chunkVars, httpVars, groqVars>>

\* line 51: whatever self.nn_model holds now is fitted on whatever
\* self.embeddings holds now; prepare_doc returns
prepare_51(t) ==
    /\ pc[t] = "prepare_51"
    /\ nn_model' = Fit(nn_model, embeddings)
    /\ Goto(t, "done")
    /\ UNCHANGED <<text_chunks, embeddings, embedding_dim, loc, seqVars, chunkVars, httpVars, groqVars>>

\* retrieve_similar_chunks line 57: the guard
retrieve_57(t) ==
    /\ pc[t] = "retrieve_57"
    /\ IF ~IsPrepared(Self)
       THEN Raise(t, NotPrepared)
       ELSE Goto(t, "retrieve_66") /\ UNCHANGED loc
    /\ UNCHANGED <<pipeVars, seqVars, chunkVars, httpVars, groqVars>>

\* lines 60-66: the query is embedded; k = min(top_k, len(self.text_chunks))
retrieve_60_66(t) ==
    /\ pc[t] = "retrieve_66"
    /\ loc' = [loc EXCEPT ![t].k = Min(DefaultTopK, Len(text_chunks))]
    /\ Goto(t, "retrieve_67")
    /\ UNCHANGED <<pipeVars, seqVars, chunkVars, httpVars, groqVars>>

\* line 67: self.nn_model.kneighbors(query_embedding, n_neighbors=k)
retrieve_67(t) ==
    /\ pc[t] = "retrieve_67"
    /\ \E rank \in RankingsOf(nn_model) :
          LET nb == kneighbors(nn_model, rank, loc[t].k)
          IN  IF nb.exc # NoExc
              THEN Raise(t, nb.exc)
              ELSE /\ loc' = [loc EXCEPT ![t].indices = nb.value]
                   /\ Goto(t, "retrieve_68")
    /\ UNCHANGED <<pipeVars, seqVars, chunkVars, httpVars, groqVars>>

\* line 68, then query_doc lines 75-77: the passages at the indices are read
\* from self.text_chunks and the prompt is built
retrieve_68(t) ==
    /\ pc[t] = "retrieve_68"
    /\ LET ix == loc[t].indices
       IN  IF \E j \in 1..Len(ix) : ix[j] > Len(text_chunks)
           THEN Raise(t, Exc("IndexError", "list index out of range"))
           ELSE LET got == [j \in 1..Len(ix) |-> text_chunks[ix[j]]]
                IN  /\ loc' = [loc EXCEPT ![t].chunks = got,
                                          ![t].value = Prompt(JoinWith(<<"\n", "\n">>, got), Question)]
                    /\ Goto(t, "done")
    /\ UNCHANGED <<pipeVars, seqVars, chunkVars, httpVars, groqVars>>

ConcNext ==
    \E t \in Reqs :
        \/ upload_file(t)
        \/ ask_from_doc(t)
        \/ prepare_26_30(t)
        \/ prepare_31_37(t)
        \/ prepare_37(t)
        \/ prepare_38_47(t)
        \/ prepare_50(t)
        \/ prepare_51(t)
        \/ retrieve_57(t)
        \/ retrieve_60_66(t)
        \/ retrieve_67(t)
        \/ retrieve_68(t)

SpecConc == ConcInit /\ [][ConcNext]_vars

-----------------------------------------------------------------------------
(* SpecChunk: chunk_text on every text up to MaxTextLen characters and     *)
(* every max_length in 1..MaxM.                                            *)

ChunkInit ==
    /\ text \in StrUpTo(Alphabet, MaxTextLen)
    /\ max_length \in 1..MaxM
    /\ chunks = None
    /\ PipeInit /\ SeqIdle /\ ConcIdle /\ HttpIdle /\ GroqIdle

ChunkCall ==
    /\ chunks = None
    /\ chunks' = List(chunk_text(text, max_length))
    /\ UNCHANGED <<text, max_length, pipeVars, seqVars, concVars, httpVars,
                 groqVars>>

ChunkNext == ChunkCall

SpecChunk == ChunkInit /\ [][ChunkNext]_vars

-----------------------------------------------------------------------------
(* SpecPrep: prepare_doc on a new pipeline, for a document of every text   *)
(* up to MaxTextLen characters and every outcome of the embedder.          *)

PrepInit ==
    /\ text \in StrUpTo(Alphabet, MaxTextLen)
    /\ max_length = DefaultMaxLength
    /\ chunks = None
    /\ PipeInit /\ SeqIdle /\ ConcIdle /\ HttpIdle /\ GroqIdle

PrepareText ==
    /\ ret = NoCall
    /\ \E enc \in EncodeOutcomes :
         LET file == PdfOf(text)
             r    == prepare_doc(Self, file, enc)
         IN  /\ SetSelf(r.self)
             /\ before' = Self
             /\ ret' = [op |-> "prepare_doc", file |-> file, exc |-> r.exc]
             /\ lastPrep' = [doc |-> file, exc |-> r.exc, prior |-> good]
             /\ good' = IF r.exc = NoExc THEN file ELSE good
    /\ UNCHANGED <<chunkVars, concVars, httpVars, groqVars>>

PrepNext == PrepareText

SpecPrep == PrepInit /\ [][PrepNext]_vars

-----------------------------------------------------------------------------
(* SpecGroq: query_groq in every environment, against every pair of        *)
(* provider replies to its candidates.                                     *)

GroqInit ==
    /\ \E env \in Envs :
         \E provider \in [CandidateSet(env) -> Replies] :
            groq_env = [env |-> env, provider |-> provider]
    /\ groq_ret = None
    /\ PipeInit /\ SeqIdle /\ ChunkIdle /\ ConcIdle /\ HttpIdle

GroqCall ==
    /\ groq_ret = None
    /\ groq_ret' = query_groq(groq_env.env, groq_env.provider)
    /\ UNCHANGED <<groq_env, pipeVars, seqVars, chunkVars, concVars, httpVars>>

GroqNext == GroqCall

SpecGroq == GroqInit /\ [][GroqNext]_vars

-----------------------------------------------------------------------------
(* SpecHttp: /upload and /ask_rag requests answered one at a time          *)
(* (backend.py:124-178), from startup on.                                  *)

\* startup_event (backend.py:60-73) leaves rag None if the constructor
\* raised; /upload then constructs it on demand (lines 142-144)
Constructor == {"ok", "raise"}

\* what saving the upload under UPLOAD_FOLDER can do (lines 136-138)
Save == {"ok", "raise"}

\* except ValueError also catches its subclasses; scikit-learn's
\* NotFittedError is one
IsValueError(exc) == exc.type \in {"ValueError", "NotFittedError"}

\* backend.py:172-178
ask_rag_except(exc) == IF IsValueError(exc) THEN 400 ELSE 502

\* the environments and provider replies /ask_rag is run against: the
\* default candidates, with and without the key, each candidate answering,
\* answering unparsably, being unavailable or being refused
HttpEnvs == {e \in Envs : e.GROQ_RAG_MODEL = Unset}
HttpReplies ==
    {Reply("200", Body("dict", "text", "absent", FALSE)),
     Reply("200", Body("dict", "unparsable", "absent", FALSE)),
     Reply("404", Body("dict", "absent", "dict", TRUE)),
     Reply("401", Body("dict", "absent", "dict", FALSE))}

NotCalled == [type |-> "NotCalled", msg |-> ""]

HttpInit ==
    /\ PipeInit /\ SeqIdle /\ ChunkIdle /\ ConcIdle /\ GroqIdle
    /\ \E ctor \in Constructor : rag = IF ctor = "ok" THEN RAGObject ELSE None
    /\ response = NoCall

\* upload_file, backend.py:124-151
Upload ==
    \E file \in Files, save \in Save, ctor \in Constructor, enc \in EncodeOutcomes :
        LET fail(e) ==
                /\ response' = [route |-> "/upload", status |-> 500,
                                body |-> [detail |-> "Upload failed"],
                                file |-> file, rag_was |-> rag, prepare_exc |-> e]
            r == prepare_doc(Self, file, enc)
        IN  /\ before' = Self
            /\ IF save = "raise"
               THEN fail(Exc("OSError", "cannot write")) /\ UNCHANGED <<rag, pipeVars>>
               ELSE IF rag = None /\ ctor = "raise"
               THEN fail(Exc("Exception", "RAGPipeline()")) /\ UNCHANGED <<rag, pipeVars>>
               ELSE /\ rag' = RAGObject
                    /\ SetSelf(r.self)
                    /\ IF r.exc # NoExc
                       THEN fail(r.exc)
                       ELSE response' = [route |-> "/upload", status |-> 200,
                                         body |-> [status |-> "uploaded"],
                                         file |-> file, rag_was |-> rag,
                                         prepare_exc |-> NoExc]
            /\ UNCHANGED <<ret, lastPrep, good, chunkVars, concVars, groqVars>>

\* ask_from_doc, backend.py:153-178
AskRag ==
    \E rank \in RankingsOf(nn_model), env \in HttpEnvs :
      \E provider \in [CandidateSet(env) -> HttpReplies] :
        LET q == query_doc(Self, rank, Question)
            g == query_groq(env, provider)
            answer(status, body, qe, ge) ==
                response' = [route |-> "/ask_rag", status |-> status, body |-> body,
                             rag_was |-> rag, prompt_exc |-> qe, groq_exc |-> ge]
        IN  /\ before' = Self
            /\ IF rag = None
               THEN answer(503, [detail |-> "RAG pipeline is not initialized yet."],
                           NotCalled, NotCalled)
               ELSE IF q.exc # NoExc
               THEN answer(ask_rag_except(q.exc), [detail |-> q.exc.msg], q.exc, NotCalled)
               ELSE IF g.exc # NoExc
               THEN answer(ask_rag_except(g.exc), [detail |-> g.exc.msg], NoExc, g.exc)
               ELSE answer(200, [answer |-> g.value], NoExc, NoExc)
            /\ UNCHANGED <<rag, pipeVars, ret, lastPrep, good, chunkVars, concVars,
                           groqVars>>

HttpNext == Upload \/ AskRag

SpecHttp == HttpInit /\ [][HttpNext]_vars

-----------------------------------------------------------------------------
(* Claims about chunk_text, checked under SpecChunk.                       *)

\* the words of all passages, in passage order
RECURSIVE WordsOfChunks(_)
WordsOfChunks(cs) ==
    IF cs = <<>> THEN <<>> ELSE Split(cs[1]) \o WordsOfChunks(Tail(cs))

WordCount(s) == Len(Split(s))

\* C9: for any text and any max_length >= 1, splitting each passage returned
\* by chunk_text on whitespace and concatenating the words in passage order
\* gives exactly the whitespace-split word sequence of the text: no word is
\* dropped, duplicated or reordered.
C9_ChunkCoverage ==
    chunks # None => WordsOfChunks(chunks.items) = Split(text)

\* C9 witness: a text whose whitespace is not normal (so the passages differ
\* from the text) was split into several passages of several distinct words
C9_Witness ==
    /\ chunks # None
    /\ Len(chunks.items) >= 2
    /\ Len(Split(text)) >= 3
    /\ \E i, j \in 1..Len(Split(text)) : Split(text)[i] # Split(text)[j]
    /\ text # Join(Split(text))

\* C10: for a text of W words and max_length M >= 1, chunk_text returns
\* ceil(W / M) passages, none empty or whitespace-only; each passage but the
\* last has exactly M words, the last has between 1 and M.
C10_ChunkCounts ==
    chunks # None =>
        LET W == Len(Split(text))
            M == max_length
            cs == chunks.items
            n == Len(cs)
        IN  /\ n = (W + M - 1) \div M
            /\ (n = 0) <=> (W = 0)
            /\ \A i \in 1..n : cs[i] # <<>> /\ ~IsBlank(cs[i])
            /\ \A i \in 1..(n - 1) : WordCount(cs[i]) = M
            /\ n > 0 => WordCount(cs[n]) \in 1..M

\* C10 witness: the scaled scenario B, W = 2 * M words with M >= 2 gave
\* exactly two full passages
C10_Witness ==
    /\ chunks # None
    /\ max_length >= 2
    /\ Len(Split(text)) = 2 * max_length
    /\ Len(chunks.items) = 2
    /\ WordCount(chunks.items[1]) = max_length
    /\ WordCount(chunks.items[2]) = max_length

-----------------------------------------------------------------------------
(* Claims about the pipeline, checked under Spec.                          *)

Range(f) == {f[i] : i \in DOMAIN f}

\* the passages of a document
ChunksOf(file) == chunk_text(file.text, DefaultMaxLength)

\* the index of one document: its passages, one unit row per passage, and a
\* search structure fitted on exactly those rows
IndexOf(file) ==
    LET cs   == ChunksOf(file)
        rows == [i \in 1..Len(cs) |-> [of |-> cs[i], unit |-> TRUE]]
    IN  [text_chunks |-> cs, nn_model |-> [fitted |-> TRUE, X |-> rows],
         embeddings |-> Matrix(rows), embedding_dim |-> Dim]

Absent(self) ==
    self.text_chunks = <<>> /\ self.nn_model = None /\ self.embeddings = None

Retrieved == ret.op = "retrieve_similar_chunks"
Prepared  == ret.op = "prepare_doc"

\* C1: a prepare_doc that fails, at whatever stage, leaves the passages, the
\* matrix and the search structure exactly as they were; so a retrieve after
\* a failed prepare returns passages of the last successfully prepared
\* document if there is one, and raises not-prepared if there is none.
\* (The fields are compared on a pipeline that was prepared when the call
\* began, where a caller can tell the difference.)
C1_FailedPrepareChangesNothing ==
    /\ (Prepared /\ ret.exc # NoExc /\ IsPrepared(before)) => Self = before
    /\ (Retrieved /\ lastPrep.exc # NoExc /\ ret.top_k > 0) =>
          IF good = None
          THEN ret.exc = NotPrepared
          ELSE /\ ret.exc = NoExc
               /\ \A j \in 1..Len(ret.value) : ret.value[j] \in Range(ChunksOf(good))

\* C2: between calls the pipeline is fully absent, or fully consistent: the
\* passages, the matrix (one row per passage) and the fitted search structure
\* are those of one and the same document.
C2_AbsentOrConsistent ==
    Absent(Self) \/ \E f \in GoodFiles : Self = IndexOf(f)

\* C4: as long as no prepare_doc has succeeded, retrieve_similar_chunks and
\* query_doc raise the not-prepared error and return nothing.
C4_NotPreparedUntilSuccess ==
    good = None =>
        /\ Retrieved => ret.exc = NotPrepared /\ ret.value = <<>>
        /\ ret.op = "query_doc" => ret.exc = NotPrepared /\ ret.value = None

\* C4 witness: a retrieve on a pipeline whose only prepare_doc calls failed,
\* the last one in the embedder, after the passages were stored
C4_Witness ==
    /\ good = None
    /\ Retrieved
    /\ ret.top_k > 0
    /\ lastPrep.exc.type = "EmbeddingError"
    /\ text_chunks # <<>>

\* C5: prepare_doc of a document whose text is empty or whitespace only
\* raises the empty-document error and leaves the passages, the matrix and
\* the search structure as they were.
C5_BlankDocumentRejected ==
    (Prepared /\ ret.file.readable /\ IsBlank(ret.file.text)) =>
        /\ ret.exc = Exc("ValueError", "No text extracted from PDF.")
        /\ Self = before

\* C5 witness: a whitespace-only document was refused by a pipeline that
\* holds the index of an earlier document
C5_Witness ==
    /\ Prepared
    /\ ret.file.readable
    /\ ret.file.text # <<>>
    /\ IsBlank(ret.file.text)
    /\ good # None
    /\ Self = IndexOf(good)

\* C6: a successful prepare_doc leaves exactly the index of the new document
\* (nothing of the old one, nothing appended); a retrieve that follows it
\* returns passages of the new document only, and the stored passage count
\* is the new document's.
C6_SuccessfulPrepareReplaces ==
    /\ (Prepared /\ ret.exc = NoExc) => Self = IndexOf(ret.file)
    /\ (Retrieved /\ ret.exc = NoExc /\ lastPrep.exc = NoExc) =>
          /\ Len(text_chunks) = Len(ChunksOf(lastPrep.doc))
          /\ \A j \in 1..Len(ret.value) :
                /\ ret.value[j] \in Range(ChunksOf(lastPrep.doc))
                /\ lastPrep.prior \notin {None, lastPrep.doc} =>
                       ret.value[j] \notin Range(ChunksOf(lastPrep.prior))

\* C6 witness: passages were retrieved after document B replaced a different
\* document A
C6_Witness ==
    /\ Retrieved
    /\ ret.exc = NoExc
    /\ Len(ret.value) >= 2
    /\ lastPrep.exc = NoExc
    /\ lastPrep.prior \notin {None, lastPrep.doc}

\* the indices are pairwise distinct
Distinct(seq) == \A i, j \in 1..Len(seq) : i # j => seq[i] # seq[j]

\* what C7 promises of one retrieve on the pipeline the call found
ReturnsMinKN ==
    LET N == Len(before.text_chunks)
    IN  /\ ret.exc = NoExc
        /\ Len(ret.value) = Min(ret.top_k, N)
        /\ Distinct(ret.indices)
        /\ \A j \in 1..Len(ret.value) :
              /\ ret.indices[j] \in 1..N
              /\ ret.value[j] = before.text_chunks[ret.indices[j]]

\* C7: on a prepared pipeline holding N passages, retrieve with top_k > 0
\* returns exactly min(top_k, N) passages, each the stored passage at a
\* distinct index; never fewer because of an error, never more.
C7_ReturnsMinKN ==
    (Retrieved /\ IsPrepared(before) /\ ret.top_k > 0) => ReturnsMinKN

\* C7 on a pipeline that holds the index of one document (no failed
\* prepare_doc since): the clamping itself is right
C7_OnConsistentIndex ==
    (Retrieved /\ ret.top_k > 0 /\ \E f \in GoodFiles : before = IndexOf(f)) => ReturnsMinKN

\* C8: on a prepared pipeline, retrieve with top_k <= 0 fails with the
\* invalid-input error of the neighbour search; it returns no list, and
\* top_k is neither clamped nor coerced.
C8_NonPositiveKRejected ==
    (Retrieved /\ IsPrepared(before) /\ ret.top_k <= 0) =>
        /\ ret.exc = Exc("ValueError", "Expected n_neighbors > 0")
        /\ ret.value = <<>>
        /\ ret.indices = <<>>

\* C8 witness: retrieve was called with a negative top_k on a prepared pipeline
C8_Witness ==
    /\ Retrieved
    /\ IsPrepared(before)
    /\ ret.top_k < 0
    /\ ret.exc # NoExc

-----------------------------------------------------------------------------
(* Claim about concurrent requests, checked under SpecConc.                *)

Quiescent == \A t \in Reqs : pc[t] \in {"idle", "done"}

\* what an /ask_rag may observe if prepare_doc excludes every other call:
\* not-prepared (no upload has finished), or the passages of one document,
\* min(3, N) of them
AskSawOneDocument(t) ==
    \/ loc[t].exc = NotPrepared
    \/ /\ loc[t].exc = NoExc
       /\ \E f \in GoodFiles :
             /\ Len(loc[t].chunks) = Min(DefaultTopK, Len(ChunksOf(f)))
             /\ \A j \in 1..Len(loc[t].chunks) : loc[t].chunks[j] \in Range(ChunksOf(f))

\* C3: a prepare_doc in progress excludes every other prepare_doc and every
\* retrieve / query_doc on the pipeline.  So, whatever the interleaving of
\* the requests' threads: no finished /ask_rag has read passages, matrix and
\* search structure of different prepare_doc calls (it saw one document or
\* not-prepared), every /upload of a good document succeeds, and once all
\* requests are over the pipeline holds the index of one uploaded document
\* (no two prepare_doc calls interleaved their writes).
C3_PrepareIsExclusive ==
    /\ \A t \in Reqs :
          pc[t] = "done" =>
              IF loc[t].kind = "ask" THEN AskSawOneDocument(t) ELSE loc[t].exc = NoExc
    /\ Quiescent =>
          \/ Absent(Self)
          \/ \E t \in Reqs : loc[t].kind = "upload" /\ Self = IndexOf(loc[t].file)

-----------------------------------------------------------------------------
(* Claim about the HTTP layer, checked under SpecHttp.                     *)

Uploaded == response # NoCall /\ response.route = "/upload"
Asked    == response # NoCall /\ response.route = "/ask_rag"

\* the stage of /ask_rag that failed, if one did
AskFailure ==
    IF response.prompt_exc \notin {NoExc, NotCalled} THEN response.prompt_exc
    ELSE IF response.groq_exc \notin {NoExc, NotCalled} THEN response.groq_exc
    ELSE NoExc

\* what the provider said to the call that ended query_groq was an answer
Answered(value) == value \in {Content(m) : m \in Models}

\* C11: over any sequence of /upload and /ask_rag requests, /upload answers
\* {"status": "uploaded"} only when prepare_doc completed without error (the
\* pipeline then holds that document's index) and answers 500 otherwise;
\* /ask_rag answers 200 with an answer only when the pipeline object exists,
\* is prepared, query_doc built the prompt and the language model answered
\* it, and otherwise answers 503 (no pipeline object), 400 (a ValueError) or
\* 502 (any other exception, not-prepared included); no failure is answered
\* with 200.
C11_FailuresAreErrorResponses ==
    /\ Uploaded =>
         /\ response.status \in {200, 500}
         /\ (response.status = 200) = (response.prepare_exc = NoExc)
         /\ response.status = 200 =>
              /\ response.body = [status |-> "uploaded"]
              /\ rag # None
              /\ Self = IndexOf(response.file)
         /\ response.status = 500 => "detail" \in DOMAIN response.body
    /\ Asked =>
         /\ response.status \in {200, 503, 400, 502}
         /\ response.status = 200 =>
              /\ response.rag_was # None
              /\ IsPrepared(before)
              /\ response.prompt_exc = NoExc
              /\ response.groq_exc = NoExc
              /\ "answer" \in DOMAIN response.body
              /\ Answered(response.body.answer)
         /\ (response.status = 503) = (response.rag_was = None)
         /\ response.status = 400 => AskFailure # NoExc /\ AskFailure.type = "ValueError"
         /\ response.status = 502 => AskFailure # NoExc /\ AskFailure.type # "ValueError"
         /\ response.rag_was # None /\ ~IsPrepared(before) =>
              response.status = 502 /\ response.prompt_exc = NotPrepared
         /\ AskFailure # NoExc => response.status # 200
         /\ response.status # 200 => "detail" \in DOMAIN response.body

-----------------------------------------------------------------------------
(* Claim about query_groq, checked under SpecGroq.                         *)

GroqDone == groq_ret # None

\* the distinct candidates: the default model, then the fallback
DistinctCandidates ==
    LET d == DEFAULT_GROQ_RAG_MODEL(groq_env.env)
    IN  IF d = "llama-3.3-70b-versatile" THEN <<d>> ELSE <<d, "llama-3.3-70b-versatile">>

ReplyTo(model) == groq_env.provider[model]

\* the model responded 200 with non-empty content
Answers(r) == r.status = "200" /\ r.body.kind = "dict" /\ r.body.content = "text"

\* the call failed with an error that names the model as unavailable
ModelUnavailable(r) ==
    /\ ~Answers(r)
    /\ r.status \in {"400", "404"} \/ (r.body.kind = "dict" /\ r.body.error # "absent")
    /\ r.body.unavailable

FailedForAll == Exc("Exception", "Groq API failed for all tried models")

\* C12: query_groq calls the distinct candidates in list order, each at most
\* once, so never more often than there are distinct candidates; it calls a
\* later candidate only if every earlier one failed as unavailable; it
\* returns the answer of the first model that responds 200 with non-empty
\* content and returns nothing else; any other failure raises at once; when
\* every candidate was unavailable it raises 'failed for all tried models'.
C12_FallbackInOrder ==
    GroqDone =>
        LET calls == groq_ret.calls
            n     == Len(calls)
        IN  IF ~groq_env.env.GROQ_API_KEY
            THEN calls = <<>> /\ groq_ret.exc.type = "ValueError"
            ELSE /\ n \in 1..Len(DistinctCandidates)
                 /\ \A i \in 1..n : calls[i] = DistinctCandidates[i]
                 /\ \A i \in 1..(n - 1) : ModelUnavailable(ReplyTo(calls[i]))
                 /\ LET last == ReplyTo(calls[n])
                    IN  /\ Answers(last) =>
                             groq_ret.exc = NoExc /\ groq_ret.value = Content(calls[n])
                        /\ groq_ret.exc = NoExc => Answers(last)
                        /\ ~Answers(last) /\ ~ModelUnavailable(last) =>
                             groq_ret.exc \notin {NoExc, FailedForAll}
                        /\ ModelUnavailable(last) =>
                             n = Len(DistinctCandidates) /\ groq_ret.exc = FailedForAll

-----------------------------------------------------------------------------
(* Claim about the checks of prepare_doc, checked under SpecPrep.          *)

NoTextExtracted == Exc("ValueError", "No text extracted from PDF.")
NoChunksProduced == Exc("ValueError", "No text chunks produced from PDF.")

\* the text is non-empty after stripping whitespace
HasText(s) == \E i \in 1..Len(s) : s[i] \notin Whitespace

\* C13: prepare_doc never raises 'no text chunks produced': a text that is
\* non-empty after stripping gets at least one passage, which is stored, and
\* a text that is not is rejected by the empty-document check with the
\* stored passages as they were.
C13_NoChunksUnreachable ==
    Prepared =>
        /\ ret.exc # NoChunksProduced
        /\ HasText(text) =>
              /\ ret.exc # NoTextExtracted
              /\ Len(text_chunks) >= 1
              /\ text_chunks = chunk_text(text, DefaultMaxLength)
        /\ ~HasText(text) =>
              /\ ret.exc = NoTextExtracted
              /\ text_chunks = before.text_chunks

\* a text of one word between whitespace is prepared into one passage
C13_Witness ==
    /\ Prepared
    /\ ret.exc = NoExc
    /\ Len(text) >= 3
    /\ text[1] \in Whitespace
    /\ text[Len(text)] \in Whitespace
    /\ Len(text_chunks) = 1

=============================================================================
